---- MODULE Spec2Model ----
(***************************************************************************)
(* Model of the SpriteCraft editor's mask / history engine                 *)
(* (src/main.py: EditableLabel and the SpriteCraftEditor handlers that     *)
(* drive it), of the segmentation of the Tk editor (src/main_tk.py) and of *)
(* the library classes SpriteSheetGenerator, PaletteEditor, PluginManager. *)
(*                                                                         *)
(* Specifications:                                                         *)
(*   Spec         the editing tools of the Qt editor, sessions of bounded  *)
(*                depth                                                    *)
(*   HistorySpec  load, brush, undo, redo, reset; unbounded depth          *)
(*   SnapshotSpec HistorySpec with the pencil, which paints in place      *)
(*   StrokeSpec   brush strokes and the composite on a 4 x 2 image         *)
(*   RegionSpec   region detection and removal                             *)
(*   CropSpec     cropping, background removal, brush, undo, redo, reset   *)
(*   SegmentSpec  the Tk editor: load and remove_background                *)
(*   SheetSpec    SpriteSheetGenerator (src/sprite_sheet.py)               *)
(*   PaletteSpec  PaletteEditor.add_color / remove_color                   *)
(*   PluginSpec   PluginManager (src/plugin_manager.py)                    *)
(*                                                                         *)
(* Images are small rasters: a record [w, h, px] whose px is the row-major *)
(* sequence of pixels <<r, g, b, a>>.  A QPixmap keeps premultiplied       *)
(* pixels, so a pixel of alpha 0 carries the colour <<0, 0, 0>>.           *)
(* The mask is a record [w, h, a] with one byte per pixel.                 *)
(* Pointer positions are widget coordinates <<x, y>> used by the source    *)
(* directly as image coordinates; they may lie outside the image.          *)
(* _last_pos is not a variable: mouseMoveEvent overwrites it with the      *)
(* event position before any tool reads it, so every line a move draws     *)
(* runs from pos to pos.  The zoom level is 0.5 from setPixmap on and is   *)
(* kept in the "scaled" tag of the display.                                *)
(*                                                                         *)
(* QPainter semantics assumed where the source does not spell them out:    *)
(*  - drawing QColor(0, 0, 0) into the Alpha8 mask writes the value 0 to   *)
(*    the covered pixels, as the source's comments state ("Black =         *)
(*    transparent", "255 = fully opaque"); a pixel the antialiased shape   *)
(*    covers only in part is blended with coverage AACoverage/255;         *)
(*  - CompositionMode_DestinationIn multiplies the destination by the      *)
(*    alpha of the source image; a Grayscale8 source has no alpha channel  *)
(*    and is opaque.                                                       *)
(***************************************************************************)
EXTENDS Integers, Sequences, FiniteSets, TLC

VARIABLES
    _pixmap,          \* EditableLabel._pixmap: the source image, or NoImage
    _working_pixmap,  \* EditableLabel._working_pixmap, or NoImage
    _mask,            \* EditableLabel._mask, or NoMask
    _history,         \* EditableLabel._history: sequence of pixmaps
    _history_index,   \* EditableLabel._history_index
    _mode,            \* EditableLabel._mode
    _brush_size,      \* EditableLabel._brush_size
    brush_size,       \* SpriteCraftEditor.brush_size
    _current_mask,    \* EditableLabel._current_mask: detected region, or NoMask
    display,          \* what QLabel shows (super().setPixmap / setText)
    buttons,          \* environment: the left mouse button is held down
    ret,              \* outcome reported by the last operation
    op,               \* history variable: the last operation
    nCommits,         \* history variable: snapshots committed since the load, while none was pruned
    snapAge,          \* history variable: per snapshot, its ordinal in the session, while none was pruned
    pruned,           \* history variable: a redo branch was pruned since the load
    lastCommitPruned, \* history variable: the last operation, failed redos aside, was a commit that pruned
    uncommitted,      \* history variable: the working pixmap holds an uncommitted edit
    preUndo,          \* history variable: the state before the last successful undo
    gesture,          \* history variable: the brush gesture in progress
    preEdit,          \* history variable: the state before the last edit gesture
    original_image,   \* main_tk.SpriteCraftEditor.original_image, or NoImage
    result,           \* the last call of main_tk's ImageProcessor.remove_background: input and return value
    images,           \* SpriteSheetGenerator.images: the sizes of the added images
    metadata,         \* SpriteSheetGenerator.metadata["frames"]
    saved,            \* the sheet and metadata files written by save_sheet, or NoFile
    palette,          \* PaletteEditor.palette
    plugins,          \* PluginManager.plugins: name -> module
    plugin_dir,       \* the files in the plugin directory
    call              \* the last library call: its arguments and what it returned

progVars == <<_pixmap, _working_pixmap, _mask, _history, _history_index,
              _mode, _brush_size, brush_size, _current_mask, display, buttons>>

ghostVars == <<ret, op, nCommits, snapAge, pruned, lastCommitPruned,
               uncommitted, preUndo, gesture, preEdit>>

\* the state of the Tk editor (src/main_tk.py)
tkVars == <<original_image, result>>

\* the state of the library classes (src/sprite_sheet.py,
\* src/palette_editor.py, src/plugin_manager.py)
sheetVars == <<images, metadata, saved>>

pluginVars == <<plugins, plugin_dir>>

libVars == <<sheetVars, palette, pluginVars, call>>

vars == <<_pixmap, _working_pixmap, _mask, _history, _history_index,
          _mode, _brush_size, brush_size, _current_mask, display, buttons,
          ret, op, nCommits, snapAge, pruned, lastCommitPruned,
          uncommitted, preUndo, gesture, preEdit, original_image, result,
          images, metadata, saved, palette, plugins, plugin_dir, call>>

\* ---- tool modes (EditableLabel.MODE_*) ----
MODE_NONE == 0
MODE_CROP == 1
MODE_BRUSH == 2
MODE_AUTO_DETECT == 3
MODE_PENCIL == 4
MODE_ERASER == 5
MODE_FILL == 6

\* EditableLabel._max_history
MaxHistory == 20
\* the brush size set in __init__ of EditableLabel and SpriteCraftEditor
DefaultBrushSize == 20
\* the brush size enable_pencil_tool sets
PencilBrushSize == 1
\* flood-fill tolerance of _highlight_region
Tolerance == 10

\* ---- bounds of the model ----
\* coverage (of 255) given to a pixel the antialiased brush covers in part
AACoverage == 192
\* snapshots a session of the full editor model may hold before edits stop
MaxDepth == 3
\* number of oldest snapshots whose eviction is tracked
EarlySnaps == 5

Min(a, b) == IF a < b THEN a ELSE b
Max(a, b) == IF a > b THEN a ELSE b
Abs(a) == IF a < 0 THEN -a ELSE a

\* ---- rasters ----
White == <<255, 255, 255, 255>>
Cream == <<250, 250, 250, 255>>
Dark == <<40, 40, 40, 255>>
Red == <<255, 0, 0, 255>>
Clear == <<0, 0, 0, 0>>

Image(w, h, px) == [w |-> w, h |-> h, px |-> px]

InBounds(w, h, pos) == 0 <= pos[1] /\ pos[1] < w /\ 0 <= pos[2] /\ pos[2] < h

\* index of pixel (x, y) in a row-major sequence of width w
Idx(w, x, y) == y * w + x + 1
XOf(w, i) == (i - 1) % w
YOf(w, i) == (i - 1) \div w

\* None, or a null pixmap (the source tests "not pixmap or pixmap.isNull()")
NoImage == Image(0, 0, <<>>)
\* None in the place of a mask
NoMask == [w |-> 0, h |-> 0, a |-> <<>>]

\* QImage(size, Format_Alpha8) followed by fill(v)
FilledMask(w, h, v) == [w |-> w, h |-> h, a |-> [i \in 1..(w * h) |-> v]]

\* a premultiplied pixel: alpha 0 leaves no colour
Premul(p) == IF p[4] = 0 THEN Clear ELSE p

\* ---- compositing (the QPainter calls of _update_working_pixmap) ----
\* painter.setCompositionMode(DestinationIn); painter.drawImage(0, 0, mask):
\* inside the mask's rectangle the destination alpha is multiplied by the
\* mask value; outside it the destination is untouched.
DestinationIn(img, m) ==
    Image(img.w, img.h,
          [i \in 1..(img.w * img.h) |->
              LET x == XOf(img.w, i)
                  y == YOf(img.w, i)
                  p == img.px[i]
              IN  IF x < m.w /\ y < m.h
                  THEN Premul(<<p[1], p[2], p[3], (p[4] * m.a[Idx(m.w, x, y)]) \div 255>>)
                  ELSE p])

\* ---- brush geometry ----
DistSq(p, q) == (p[1] - q[1]) * (p[1] - q[1]) + (p[2] - q[2]) * (p[2] - q[2])

Dot(p, a, b) == (p[1] - a[1]) * (b[1] - a[1]) + (p[2] - a[2]) * (b[2] - a[2])

\* the distance from p to the segment a-b is at most r (strictly less when strict)
NearSegment(p, a, b, r, strict) ==
    LET l2 == DistSq(a, b)
        t == Dot(p, a, b)
        cmp(u, v) == IF strict THEN u < v ELSE u <= v
    IN  IF l2 = 0 \/ t <= 0 THEN cmp(DistSq(p, a), r * r)
        ELSE IF t >= l2 THEN cmp(DistSq(p, b), r * r)
        ELSE cmp((DistSq(p, a) - r * r) * l2, t * t)

Clamp(v, lo, hi) == Max(lo, Min(hi, v))

Corners(x, y) == {<<x, y>>, <<x + 1, y>>, <<x, y + 1>>, <<x + 1, y + 1>>}

\* the capsule of radius r around a-b covers the whole pixel square (x, y)
FullyCovered(x, y, a, b, r) ==
    \A c \in Corners(x, y) : NearSegment(c, a, b, r, FALSE)

\* the capsule of radius r around a-b overlaps the pixel square (x, y)
Touched(x, y, a, b, r) ==
    \/ \E c \in Corners(x, y) : NearSegment(c, a, b, r, TRUE)
    \/ \E e \in {a, b} :
          DistSq(e, <<Clamp(e[1], x, x + 1), Clamp(e[2], y, y + 1)>>) < r * r

\* the value an antialiased black shape leaves in a mask pixel
PaintedValue(v, x, y, a, b, r) ==
    IF FullyCovered(x, y, a, b, r) THEN 0
    ELSE IF Touched(x, y, a, b, r) THEN (v * (255 - AACoverage)) \div 255
    ELSE v

\* QPainter(self._mask) drawing a black capsule of radius r around a-b
PaintCapsule(m, a, b, r) ==
    [m EXCEPT !.a = [i \in 1..(m.w * m.h) |->
                        PaintedValue(m.a[i], XOf(m.w, i), YOf(m.w, i), a, b, r)]]

\* painter.drawEllipse(pos, size, size) with NoPen and a black brush
DrawEllipse(m, pos, r) == PaintCapsule(m, pos, pos, r)

\* variant: only the start point of the line is stamped
DrawRoundLine_StartOnly(m, start, end, r) == PaintCapsule(m, start, start, r)

\* painter.drawLine(start, end) with a round-capped pen of width 2 * size
DrawRoundLine(m, start, end, r) == PaintCapsule(m, start, end, r)

\* pixels of the one-pixel line start-end (no antialiasing)
OnLine(x, y, s, e) ==
    LET dx == e[1] - s[1]
        dy == e[2] - s[2]
    IN  /\ Min(s[1], e[1]) <= x /\ x <= Max(s[1], e[1])
        /\ Min(s[2], e[2]) <= y /\ y <= Max(s[2], e[2])
        /\ 2 * Abs(dy * (x - s[1]) - dx * (y - s[2])) <= Max(Abs(dx), Abs(dy))

\* painter.drawPoint / drawLine with the red one-pixel pen of the pencil
DrawPixelLine(img, s, e) ==
    [img EXCEPT !.px = [i \in 1..(img.w * img.h) |->
                           IF OnLine(XOf(img.w, i), YOf(img.w, i), s, e)
                           THEN Red ELSE img.px[i]]]

\* painter.drawRect(x - size//2, y - size//2, size, size) in mode Clear with
\* the default one-pixel pen and no brush: the outline of the rectangle
OnRectOutline(x, y, pos, size) ==
    LET x0 == pos[1] - (size \div 2)
        y0 == pos[2] - (size \div 2)
    IN  /\ x0 <= x /\ x <= x0 + size /\ y0 <= y /\ y <= y0 + size
        /\ (x = x0 \/ x = x0 + size \/ y = y0 \/ y = y0 + size)

ClearRectOutline(img, pos, size) ==
    [img EXCEPT !.px = [i \in 1..(img.w * img.h) |->
                           IF OnRectOutline(XOf(img.w, i), YOf(img.w, i), pos, size)
                           THEN Clear ELSE img.px[i]]]

\* painter.drawLine(start, end) in mode Clear with a square-capped pen of
\* width size: a size x size square stamped along the line
UnderThickLine(x, y, s, e, size) ==
    \E qx \in (Min(s[1], e[1]))..(Max(s[1], e[1])) :
      \E qy \in (Min(s[2], e[2]))..(Max(s[2], e[2])) :
        /\ OnLine(qx, qy, s, e)
        /\ qx - (size \div 2) <= x /\ x < qx - (size \div 2) + size
        /\ qy - (size \div 2) <= y /\ y < qy - (size \div 2) + size

ClearThickLine(img, s, e, size) ==
    [img EXCEPT !.px = [i \in 1..(img.w * img.h) |->
                           IF UnderThickLine(XOf(img.w, i), YOf(img.w, i), s, e, size)
                           THEN Clear ELSE img.px[i]]]

\* ---- flood fill (cv2.floodFill, 4-connected, floating range) ----
\* variant: only the neighbours in the same row are connected
Adjacent4_SameRow(w, i, j) ==
    YOf(w, i) = YOf(w, j) /\ Abs(XOf(w, i) - XOf(w, j)) = 1

Adjacent4(w, i, j) ==
    \/ YOf(w, i) = YOf(w, j) /\ Abs(XOf(w, i) - XOf(w, j)) = 1
    \/ XOf(w, i) = XOf(w, j) /\ Abs(YOf(w, i) - YOf(w, j)) = 1

\* every colour channel of q is within tol of the same channel of p
Similar(p, q, tol) == \A c \in 1..3 : Abs(p[c] - q[c]) <= tol

RECURSIVE Grow(_, _, _)
Grow(img, S, tol) ==
    LET N == {j \in (1..(img.w * img.h)) \ S :
                 \E i \in S : Adjacent4(img.w, i, j) /\ Similar(img.px[i], img.px[j], tol)}
    IN  IF N = {} THEN S ELSE Grow(img, S \cup N, tol)

\* the pixels cv2.floodFill reaches from the seed (which is inside the image)
FloodFill(img, seed, tol) == Grow(img, {Idx(img.w, seed[1], seed[2])}, tol)

\* fill_mask = mask[1:-1, 1:-1]: 1 on the filled region, 0 elsewhere
FillMask(img, seed, tol) ==
    [w |-> img.w, h |-> img.h,
     a |-> [i \in 1..(img.w * img.h) |-> IF i \in FloodFill(img, seed, tol) THEN 1 ELSE 0]]

\* the pixmap _fill_area builds: the image bytes (B, G, R, A) are read as
\* RGBA, flood-filled with exact colour match from the seed, and converted
\* back with BGR2RGBA, which sets every alpha to 255 and leaves the red and
\* blue channels of the pixels that were not filled exchanged
FilledImage(img, pos) ==
    LET S == FloodFill(img, pos, 0)
    IN  [img EXCEPT !.px = [i \in 1..(img.w * img.h) |->
                              IF i \in S THEN Red
                              ELSE <<img.px[i][3], img.px[i][2], img.px[i][1], 255>>]]

\* ---- history (EditableLabel._add_to_history) ----
\* variant: the oldest entry is never evicted
HistoryAfterAdd_NoEvict(h, i, x) ==
    LET kept == IF i < Len(h) - 1 THEN SubSeq(h, 1, i + 1) ELSE h
    IN  Append(kept, x)

\* variant: the redo branch is kept when a snapshot is added
HistoryAfterAdd_NoTruncate(h, i, x) ==
    LET grown == Append(h, x)
    IN  IF Len(grown) > MaxHistory THEN Tail(grown) ELSE grown

\* variant: at the bound the newest entry is dropped instead of the oldest
HistoryAfterAdd_EvictNewest(h, i, x) ==
    LET kept == IF i < Len(h) - 1 THEN SubSeq(h, 1, i + 1) ELSE h
        grown == Append(kept, x)
    IN  IF Len(grown) > MaxHistory THEN SubSeq(grown, 1, MaxHistory) ELSE grown

\* the snapshots kept when x is added at cursor i: the redo branch beyond
\* the cursor is dropped, x is appended, and the oldest entry is evicted
\* once the length exceeds MaxHistory
HistoryAfterAdd(h, i, x) ==
    LET kept == IF i < Len(h) - 1 THEN SubSeq(h, 1, i + 1) ELSE h
        grown == Append(kept, x)
    IN  IF Len(grown) > MaxHistory THEN Tail(grown) ELSE grown

\* variant: the cursor is not moved back when the oldest entry is evicted
IndexAfterAdd_NoDecrement(h, i, x) ==
    LET kept == IF i < Len(h) - 1 THEN SubSeq(h, 1, i + 1) ELSE h
    IN  Len(Append(kept, x)) - 1

\* the cursor after x is added at cursor i
IndexAfterAdd(h, i, x) ==
    LET kept == IF i < Len(h) - 1 THEN SubSeq(h, 1, i + 1) ELSE h
        grown == Append(kept, x)
    IN  IF Len(grown) > MaxHistory THEN (Len(grown) - 1) - 1 ELSE Len(grown) - 1

\* variant: the snapshot before the cursor is read
At_Previous(h, i) == h[Max(i, 1)]

\* the snapshot at cursor i (the source's list is 0-based)
At(h, i) == h[i + 1]

\* what the label shows
Shown(kind, img) == [kind |-> kind, img |-> img]

NoPre == [set |-> FALSE]

\* remove_background of the Tk editor has not been called
NotCalled == [called |-> FALSE]

TypeOK ==
    /\ _history_index \in -1..MaxHistory
    /\ Len(_history) \in 0..(MaxHistory + 1)
    /\ buttons \in BOOLEAN
    /\ _mode \in {MODE_NONE, MODE_CROP, MODE_BRUSH, MODE_AUTO_DETECT,
                  MODE_PENCIL, MODE_ERASER, MODE_FILL}

\* no file written yet
NoFile == [written |-> FALSE]

\* no library call made yet
NoCall == [name |-> "none"]

\* SpriteSheetGenerator.__init__ and PluginManager.__init__; the plugin
\* directory starts empty
LibInit ==
    /\ images = <<>>
    /\ metadata = <<>>
    /\ saved = NoFile
    /\ plugins = [name \in {} |-> NoFile]
    /\ plugin_dir = {}
    /\ call = NoCall

\* EditableLabel.__init__ and SpriteCraftEditor.__init__
EditorInit ==
    /\ _pixmap = NoImage
    /\ _working_pixmap = NoImage
    /\ _mask = NoMask
    /\ _history = <<>>
    /\ _history_index = -1
    /\ _mode = MODE_NONE
    /\ _brush_size = DefaultBrushSize
    /\ brush_size = DefaultBrushSize
    /\ _current_mask = NoMask
    /\ display = Shown("text", NoImage)
    /\ buttons = FALSE
    /\ ret = "none"
    /\ op = "init"
    /\ nCommits = 0
    /\ snapAge = <<>>
    /\ pruned = FALSE
    /\ lastCommitPruned = FALSE
    /\ uncommitted = FALSE
    /\ preUndo = NoPre
    /\ gesture = 0
    /\ preEdit = NoPre
    /\ original_image = NoImage
    /\ result = NotCalled

\* the state after construction of the editor and of the library objects
Init ==
    /\ EditorInit
    /\ LibInit
    /\ palette = <<>>

\* ---- fragments shared by the handlers ----
\* _add_to_history() with the working pixmap wp
AddToHistory(wp) ==
    IF wp = NoImage
    THEN /\ UNCHANGED <<_history, _history_index, nCommits, snapAge, pruned>>
         /\ lastCommitPruned' = FALSE
    ELSE /\ _history' = HistoryAfterAdd(_history, _history_index, wp)
         /\ _history_index' = IndexAfterAdd(_history, _history_index, wp)
         /\ lastCommitPruned' = (_history_index < Len(_history) - 1)
         /\ pruned' = (pruned \/ _history_index < Len(_history) - 1)
         /\ IF pruned \/ _history_index < Len(_history) - 1
            THEN \* the session is no longer a plain run of commits: the
                 \* count and the ordinals are given up
                 /\ nCommits' = 0
                 /\ snapAge' = <<>>
            ELSE /\ nCommits' = Min(nCommits + 1, MaxHistory + EarlySnaps)
                 /\ snapAge' = HistoryAfterAdd(snapAge, _history_index,
                                               Min(nCommits + 1, EarlySnaps))

\* variant: the composite starts from the working pixmap, not the source
UpdateWorkingPixmapWith_FromWorking(m) ==
    /\ _mask' = m
    /\ _working_pixmap' = DestinationIn(_working_pixmap, m)
    /\ AddToHistory(DestinationIn(_working_pixmap, m))
    /\ display' = Shown("full", DestinationIn(_working_pixmap, m))
    /\ uncommitted' = FALSE

\* _update_working_pixmap() once the mask has become m
UpdateWorkingPixmapWith(m) ==
    /\ _mask' = m
    /\ _working_pixmap' = DestinationIn(_pixmap, m)
    /\ AddToHistory(DestinationIn(_pixmap, m))
    /\ display' = Shown("full", DestinationIn(_pixmap, m))
    /\ uncommitted' = FALSE

\* variant: the snapshots of the previous session are kept
SetPixmap_KeepHistory(pixmap) ==
    /\ _pixmap' = pixmap
    /\ _working_pixmap' = pixmap
    /\ _mask' = FilledMask(pixmap.w, pixmap.h, 255)
    /\ _history' = HistoryAfterAdd(_history, _history_index, pixmap)
    /\ _history_index' = IndexAfterAdd(_history, _history_index, pixmap)
    /\ display' = Shown("scaled", pixmap)
    /\ nCommits' = 0
    /\ snapAge' = <<0>>
    /\ pruned' = FALSE
    /\ lastCommitPruned' = FALSE
    /\ uncommitted' = FALSE

\* variant: the mask of the previous session is kept
SetPixmap_KeepMask(pixmap) ==
    /\ _pixmap' = pixmap
    /\ _working_pixmap' = pixmap
    /\ _mask' = IF _mask = NoMask THEN FilledMask(pixmap.w, pixmap.h, 255) ELSE _mask
    /\ _history' = HistoryAfterAdd(<<>>, -1, pixmap)
    /\ _history_index' = IndexAfterAdd(<<>>, -1, pixmap)
    /\ display' = Shown("scaled", pixmap)
    /\ nCommits' = 0
    /\ snapAge' = <<0>>
    /\ pruned' = FALSE
    /\ lastCommitPruned' = FALSE
    /\ uncommitted' = FALSE

\* setPixmap(pixmap)
SetPixmap(pixmap) ==
    /\ _pixmap' = pixmap
    /\ _working_pixmap' = pixmap
    /\ _mask' = FilledMask(pixmap.w, pixmap.h, 255)
    /\ _history' = HistoryAfterAdd(<<>>, -1, pixmap)
    /\ _history_index' = IndexAfterAdd(<<>>, -1, pixmap)
    /\ display' = Shown("scaled", pixmap)
    /\ nCommits' = 0
    /\ snapAge' = <<0>>
    /\ pruned' = FALSE
    /\ lastCommitPruned' = FALSE
    /\ uncommitted' = FALSE

\* history variables an operation outside any gesture resets
Plain(name, r) ==
    /\ UNCHANGED <<tkVars, libVars>>
    /\ op' = name
    /\ ret' = r
    /\ preUndo' = NoPre
    /\ gesture' = 0
    /\ preEdit' = NoPre

NoCommit ==
    /\ UNCHANGED <<_history, _history_index, nCommits, snapAge, pruned>>
    /\ lastCommitPruned' = FALSE

\* ---- SpriteCraftEditor handlers ----
\* open_image: the file dialog returned a readable image
open_image(img) ==
    /\ ~buttons
    /\ SetPixmap(img)
    /\ Plain("open_image", IF Len(_history) > 1 THEN "replaced" ELSE "none")
    /\ UNCHANGED <<_mode, _brush_size, brush_size, _current_mask, buttons>>

\* variant: only the tool is reset
reset_image_ModeOnly ==
    /\ ~buttons
    /\ _pixmap # NoImage
    /\ _mode' = MODE_NONE
    /\ Plain("reset_image", IF Len(_history) > 1 THEN "replaced" ELSE "none")
    /\ NoCommit
    /\ UNCHANGED <<_pixmap, _working_pixmap, _mask, _brush_size, brush_size,
                   _current_mask, display, buttons, uncommitted>>

\* reset_image: the user answered Yes; setPixmap(original), set_mode(MODE_NONE)
reset_image ==
    /\ ~buttons
    /\ _pixmap # NoImage
    /\ SetPixmap(_pixmap)
    /\ _mode' = MODE_NONE
    /\ Plain("reset_image", IF Len(_history) > 1 THEN "replaced" ELSE "none")
    /\ UNCHANGED <<_brush_size, brush_size, _current_mask, buttons>>

\* enable_brush_tool / enable_auto_detect / enable_pencil_tool /
\* enable_eraser_tool / enable_fill_tool
EnableTool(mode, size) ==
    /\ ~buttons
    /\ _working_pixmap # NoImage
    /\ _mode' = mode
    /\ _brush_size' = size
    /\ Plain("enable_tool", "none")
    /\ NoCommit
    /\ UNCHANGED <<_pixmap, _working_pixmap, _mask, brush_size, _current_mask,
                   display, buttons, uncommitted>>

enable_brush_tool == EnableTool(MODE_BRUSH, brush_size)

enable_auto_detect == EnableTool(MODE_AUTO_DETECT, _brush_size)

enable_pencil_tool == EnableTool(MODE_PENCIL, PencilBrushSize)

enable_eraser_tool == EnableTool(MODE_ERASER, brush_size)

enable_fill_tool == EnableTool(MODE_FILL, _brush_size)

\* variant: undo is allowed at the oldest snapshot
CanUndo_AtOldest(i) == i >= 0

\* the guard of EditableLabel.undo
CanUndo(i) == i > 0

\* the guard of EditableLabel.redo
CanRedo(h, i) == i < Len(h) - 1

\* _restore_from_history() with the cursor at i
RestoreFromHistory(i) ==
    IF 0 <= i /\ i < Len(_history)
    THEN /\ _working_pixmap' = At(_history, i)
         /\ display' = Shown("scaled", At(_history, i))
         /\ uncommitted' = FALSE
    ELSE UNCHANGED <<_working_pixmap, display, uncommitted>>

\* undo_action -> EditableLabel.undo
undo_action ==
    /\ IF CanUndo(_history_index)
       THEN /\ _history_index' = _history_index - 1
            /\ RestoreFromHistory(_history_index - 1)
            /\ ret' = "True"
            /\ preUndo' = [set |-> TRUE, clean |-> ~uncommitted,
                           working |-> _working_pixmap, mask |-> _mask,
                           index |-> _history_index, history |-> _history]
       ELSE /\ UNCHANGED <<_history_index, _working_pixmap, display, uncommitted>>
            /\ ret' = "False"
            /\ preUndo' = NoPre
    /\ UNCHANGED <<tkVars, libVars>>
    /\ op' = "undo"
    /\ gesture' = 0
    /\ preEdit' = NoPre
    /\ lastCommitPruned' = FALSE
    /\ UNCHANGED <<_pixmap, _mask, _history, _mode, _brush_size, brush_size,
                   _current_mask, buttons, nCommits, snapAge, pruned>>

\* redo_action -> EditableLabel.redo
redo_action ==
    /\ IF CanRedo(_history, _history_index)
       THEN /\ _history_index' = _history_index + 1
            /\ RestoreFromHistory(_history_index + 1)
            /\ ret' = "True"
            /\ lastCommitPruned' = FALSE
       ELSE /\ UNCHANGED <<_history_index, _working_pixmap, display, uncommitted>>
            /\ ret' = "False"
            /\ lastCommitPruned' = lastCommitPruned
    /\ preUndo' = IF op = "undo" THEN preUndo ELSE NoPre
    /\ UNCHANGED <<tkVars, libVars>>
    /\ op' = "redo"
    /\ gesture' = 0
    /\ preEdit' = NoPre
    /\ UNCHANGED <<_pixmap, _mask, _history, _mode, _brush_size, brush_size,
                   _current_mask, buttons, nCommits, snapAge, pruned>>

\* ---- EditableLabel mouse handlers ----
\* history variables at the start of an edit gesture
StartEdit(name, r) ==
    /\ UNCHANGED <<tkVars, libVars>>
    /\ op' = name
    /\ ret' = r
    /\ preUndo' = NoPre
    /\ preEdit' = [set |-> TRUE, mode |-> _mode, working |-> _working_pixmap,
                   mask |-> _mask]

\* history variables while an edit gesture goes on
ContinueEdit(name, r) ==
    /\ UNCHANGED <<tkVars, libVars>>
    /\ op' = name
    /\ ret' = r
    /\ preUndo' = NoPre
    /\ preEdit' = preEdit

\* mousePressEvent, MODE_BRUSH: _apply_brush(pos)
PressBrush(pos) ==
    /\ ~buttons
    /\ _pixmap # NoImage
    /\ _mode = MODE_BRUSH
    /\ buttons' = TRUE
    /\ IF _mask = NoMask
       THEN /\ NoCommit
            /\ gesture' = 0
            /\ UNCHANGED <<_mask, _working_pixmap, display, uncommitted>>
       ELSE /\ UpdateWorkingPixmapWith(DrawEllipse(_mask, pos, _brush_size))
            /\ gesture' = 1
    /\ StartEdit("press_brush", "none")
    /\ UNCHANGED <<_pixmap, _mode, _brush_size, brush_size, _current_mask>>

\* mouseMoveEvent, MODE_BRUSH with the button held: _last_pos has just been
\* set to pos, so the line drawn is _draw_line(pos, pos)
MoveBrush(pos) ==
    /\ buttons
    /\ _pixmap # NoImage
    /\ _mode = MODE_BRUSH
    /\ IF _mask = NoMask
       THEN /\ NoCommit
            /\ gesture' = gesture
            /\ UNCHANGED <<_mask, _working_pixmap, display, uncommitted>>
       ELSE /\ UpdateWorkingPixmapWith(DrawRoundLine(_mask, pos, pos, _brush_size))
            /\ gesture' = Min(gesture + 1, 2)
    /\ ContinueEdit("move_brush", "none")
    /\ UNCHANGED <<_pixmap, _mode, _brush_size, brush_size, _current_mask, buttons>>

\* the working pixmap an uncommitted drawing tool paints on
WorkingOrCopy == IF _working_pixmap = NoImage THEN _pixmap ELSE _working_pixmap

\* variant: the painter's target is the very pixmap object the history
\* holds at the cursor, as if a restore had stored a reference, not a copy
PaintWorking_OnSnapshot(img) ==
    /\ _working_pixmap' = img
    /\ display' = Shown("full", img)
    /\ uncommitted' = TRUE
    /\ _history' = IF 0 <= _history_index /\ _history_index < Len(_history)
                   THEN [_history EXCEPT ![_history_index + 1] = img]
                   ELSE _history
    /\ UNCHANGED <<_history_index, nCommits, snapAge, pruned>>
    /\ lastCommitPruned' = FALSE
    /\ gesture' = 0
    /\ UNCHANGED <<_pixmap, _mask, _mode, _brush_size, brush_size, _current_mask>>

\* a tool that paints the working pixmap directly and shows it
PaintWorking(img) ==
    /\ _working_pixmap' = img
    /\ display' = Shown("full", img)
    /\ uncommitted' = TRUE
    /\ NoCommit
    /\ gesture' = 0
    /\ UNCHANGED <<_pixmap, _mask, _mode, _brush_size, brush_size, _current_mask>>

\* mousePressEvent, MODE_PENCIL: _draw_pixel(pos)
PressPencil(pos) ==
    /\ ~buttons
    /\ _pixmap # NoImage
    /\ _mode = MODE_PENCIL
    /\ buttons' = TRUE
    /\ PaintWorking(DrawPixelLine(WorkingOrCopy, pos, pos))
    /\ StartEdit("press_pencil", "none")

\* mouseMoveEvent, MODE_PENCIL with the button held: _draw_pixel_line(pos, pos)
MovePencil(pos) ==
    /\ buttons
    /\ _pixmap # NoImage
    /\ _mode = MODE_PENCIL
    /\ PaintWorking(DrawPixelLine(WorkingOrCopy, pos, pos))
    /\ ContinueEdit("move_pencil", "none")
    /\ UNCHANGED buttons

\* mousePressEvent, MODE_ERASER: _erase_pixel(pos)
PressEraser(pos) ==
    /\ ~buttons
    /\ _pixmap # NoImage
    /\ _mode = MODE_ERASER
    /\ buttons' = TRUE
    /\ PaintWorking(ClearRectOutline(WorkingOrCopy, pos, _brush_size))
    /\ StartEdit("press_eraser", "none")

\* mouseMoveEvent, MODE_ERASER with the button held: _erase_pixel_line(pos, pos)
MoveEraser(pos) ==
    /\ buttons
    /\ _pixmap # NoImage
    /\ _mode = MODE_ERASER
    /\ PaintWorking(ClearThickLine(WorkingOrCopy, pos, pos, _brush_size))
    /\ ContinueEdit("move_eraser", "none")
    /\ UNCHANGED buttons

\* mousePressEvent, MODE_FILL: _fill_area(pos)
PressFill(pos) ==
    /\ ~buttons
    /\ _pixmap # NoImage
    /\ _mode = MODE_FILL
    /\ buttons' = TRUE
    /\ IF ~InBounds(WorkingOrCopy.w, WorkingOrCopy.h, pos)
       THEN \* the target colour is invalid and cv2.floodFill rejects the seed
            /\ StartEdit("press_fill", "raise")
            /\ NoCommit
            /\ gesture' = 0
            /\ UNCHANGED <<_pixmap, _working_pixmap, _mask, _mode, _brush_size,
                           brush_size, _current_mask, display, uncommitted>>
       ELSE IF WorkingOrCopy.px[Idx(WorkingOrCopy.w, pos[1], pos[2])] = Red
       THEN \* target_color == fill_color
            /\ StartEdit("press_fill", "skipped")
            /\ NoCommit
            /\ gesture' = 0
            /\ UNCHANGED <<_pixmap, _working_pixmap, _mask, _mode, _brush_size,
                           brush_size, _current_mask, display, uncommitted>>
       ELSE /\ PaintWorking(FilledImage(WorkingOrCopy, pos))
            /\ StartEdit("press_fill", "none")

\* mousePressEvent in a mode without a press handler
PressOther ==
    /\ ~buttons
    /\ _pixmap = NoImage \/ _mode \in {MODE_NONE, MODE_AUTO_DETECT}
    /\ buttons' = TRUE
    /\ Plain("press_other", "none")
    /\ NoCommit
    /\ UNCHANGED <<_pixmap, _working_pixmap, _mask, _mode, _brush_size,
                   brush_size, _current_mask, display, uncommitted>>

\* mouseReleaseEvent outside the crop tool: nothing of the edit state changes
Release ==
    /\ buttons
    /\ _pixmap = NoImage \/ _mode # MODE_CROP
    /\ buttons' = FALSE
    /\ UNCHANGED <<tkVars, libVars>>
    /\ op' = "release"
    /\ ret' = "none"
    /\ preUndo' = NoPre
    /\ gesture' = gesture
    /\ preEdit' = preEdit
    /\ NoCommit
    /\ UNCHANGED <<_pixmap, _working_pixmap, _mask, _mode, _brush_size,
                   brush_size, _current_mask, display, uncommitted>>

\* variant: the detected region is cleared from the mask and committed as
\* soon as it is detected, without waiting for the confirmation
MoveHover_Removes(pos) ==
    /\ ~buttons
    /\ _pixmap # NoImage
    /\ _mode = MODE_AUTO_DETECT
    /\ IF InBounds(_pixmap.w, _pixmap.h, pos)
       THEN /\ _current_mask' = FillMask(_pixmap, pos, Tolerance)
            /\ UpdateWorkingPixmapWith(
                  [_mask EXCEPT !.a = [i \in 1..Len(_mask.a) |->
                      IF FillMask(_pixmap, pos, Tolerance).a[i] > 0
                      THEN 0 ELSE _mask.a[i]]])
       ELSE /\ NoCommit
            /\ UNCHANGED <<_current_mask, display, _mask, _working_pixmap,
                           uncommitted>>
    /\ Plain("hover", IF InBounds(_pixmap.w, _pixmap.h, pos)
                      THEN "detected" ELSE "outside")
    /\ UNCHANGED <<_pixmap, _mode, _brush_size, brush_size, buttons>>

\* mouseMoveEvent, MODE_AUTO_DETECT, no button: _highlight_region(pos, None)
MoveHover(pos) ==
    /\ ~buttons
    /\ _pixmap # NoImage
    /\ _mode = MODE_AUTO_DETECT
    /\ IF InBounds(_pixmap.w, _pixmap.h, pos)
       THEN /\ _current_mask' = FillMask(_pixmap, pos, Tolerance)
            /\ display' = Shown("preview", _pixmap)
       ELSE \* no flood fill: only the fallback highlight rectangle is set
            UNCHANGED <<_current_mask, display>>
    /\ Plain("hover", IF InBounds(_pixmap.w, _pixmap.h, pos)
                      THEN "detected" ELSE "outside")
    /\ NoCommit
    /\ UNCHANGED <<_pixmap, _working_pixmap, _mask, _mode, _brush_size,
                   brush_size, buttons, uncommitted>>

\* mouseMoveEvent, MODE_AUTO_DETECT with the button held: _remove_region(pos);
\* yes is the answer to the confirmation dialog
MoveRemoveRegion(pos, yes) ==
    /\ buttons
    /\ _pixmap # NoImage
    /\ _mask # NoMask
    /\ _mode = MODE_AUTO_DETECT
    /\ IF _current_mask # NoMask
       THEN /\ IF yes
               THEN \* the Grayscale8 region image is opaque: DestinationIn
                    \* leaves the mask as it is
                    /\ UpdateWorkingPixmapWith(_mask)
                    /\ ret' = "removed"
               ELSE /\ NoCommit
                    /\ display' = IF _working_pixmap # NoImage
                                  THEN Shown("full", _working_pixmap) ELSE display
                    /\ ret' = "declined"
                    /\ UNCHANGED <<_mask, _working_pixmap, uncommitted>>
            /\ _current_mask' = NoMask
       ELSE /\ yes
            /\ UpdateWorkingPixmapWith(DrawEllipse(_mask, pos, _brush_size * 2))
            /\ ret' = "circle"
            /\ UNCHANGED _current_mask
    /\ UNCHANGED <<tkVars, libVars>>
    /\ op' = "remove_region"
    /\ preUndo' = NoPre
    /\ gesture' = 0
    /\ preEdit' = [set |-> TRUE, mode |-> _mode, working |-> _working_pixmap,
                   mask |-> _mask, region |-> _current_mask]
    /\ UNCHANGED <<_pixmap, _mode, _brush_size, brush_size, buttons>>

\* a direct call of _update_working_pixmap(): the composite of source and mask
UpdateWorkingPixmap ==
    /\ _pixmap # NoImage
    /\ _mask # NoMask
    /\ UpdateWorkingPixmapWith(_mask)
    /\ UNCHANGED <<tkVars, libVars>>
    /\ op' = IF op \in {"composite", "composite_again"}
             THEN "composite_again" ELSE "composite"
    /\ ret' = "none"
    /\ preUndo' = NoPre
    /\ gesture' = 0
    /\ preEdit' = NoPre
    /\ UNCHANGED <<_pixmap, _mode, _brush_size, brush_size, _current_mask, buttons>>

\* a direct call of _draw_line(start_pos, end_pos)
DrawLine(start, end) ==
    /\ ~buttons
    /\ _pixmap # NoImage
    /\ _mask # NoMask
    /\ UpdateWorkingPixmapWith(DrawRoundLine(_mask, start, end, _brush_size))
    /\ gesture' = 0
    /\ StartEdit("draw_line", "none")
    /\ UNCHANGED <<_pixmap, _mode, _brush_size, brush_size, _current_mask, buttons>>

\* update_brush_size(size): the slider moved
update_brush_size(size) ==
    /\ ~buttons
    /\ size # brush_size
    /\ brush_size' = size
    /\ _brush_size' = size
    /\ Plain("update_brush_size", "none")
    /\ NoCommit
    /\ UNCHANGED <<_pixmap, _working_pixmap, _mask, _mode, _current_mask,
                   display, buttons, uncommitted>>

\* ---- cropping ----
\* crop_image: set_mode(MODE_CROP)
crop_image == EnableTool(MODE_CROP, _brush_size)

\* mousePressEvent, MODE_CROP: the rubber band starts (_start_point is set;
\* it stays set until the release, so it is not a variable)
PressCrop ==
    /\ ~buttons
    /\ _pixmap # NoImage
    /\ _mode = MODE_CROP
    /\ buttons' = TRUE
    /\ Plain("press_crop", "none")
    /\ NoCommit
    /\ UNCHANGED <<_pixmap, _working_pixmap, _mask, _mode, _brush_size,
                   brush_size, _current_mask, display, uncommitted>>

\* the rectangles mouseReleaseEvent can emit for an image: clipped to the
\* image, of positive width and height
CropRects(img) ==
    {r \in (0..(img.w - 1)) \X (0..(img.h - 1)) \X (1..img.w) \X (1..img.h) :
        r[3] <= img.w - r[1] /\ r[4] <= img.h - r[2]}

\* QPixmap.copy(rect) for a rectangle inside the image
Copy(img, r) ==
    Image(r[3], r[4],
          [i \in 1..(r[3] * r[4]) |->
              img.px[Idx(img.w, r[1] + XOf(r[3], i), r[2] + YOf(r[3], i))]])

\* mouseReleaseEvent, MODE_CROP, the rubber band maps to rectangle r of the
\* working pixmap: cropping_finished -> perform_crop(r) -> setPixmap(cropped)
ReleaseCrop(r) ==
    /\ buttons
    /\ _pixmap # NoImage
    /\ _mode = MODE_CROP
    /\ _working_pixmap # NoImage
    /\ r \in CropRects(_working_pixmap)
    /\ buttons' = FALSE
    /\ SetPixmap(Copy(_working_pixmap, r))
    /\ Plain("crop", "none")
    /\ UNCHANGED <<_mode, _brush_size, brush_size, _current_mask>>

\* mouseReleaseEvent, MODE_CROP, the rubber band maps to an empty rectangle:
\* nothing is emitted
ReleaseCropEmpty ==
    /\ buttons
    /\ _pixmap # NoImage
    /\ _mode = MODE_CROP
    /\ buttons' = FALSE
    /\ Plain("crop", "empty")
    /\ NoCommit
    /\ UNCHANGED <<_pixmap, _working_pixmap, _mask, _mode, _brush_size,
                   brush_size, _current_mask, display, uncommitted>>

\* the parameters of image_processor.ImageProcessor.remove_background
\* besides self
ProcessorParams == {"image_array"}

\* self.image_processor.remove_background(image_array, conservative=True):
\* Python raises TypeError for a keyword the method does not take
ProcessorCallRaises == ~({"conservative"} \subseteq ProcessorParams)

\* what the processor could hand back for an image: None (NoImage here), or
\* the image with the alpha of some pixels set to 0
ProcessedResults(img) ==
    {NoImage} \cup
    {[img EXCEPT !.px = [i \in 1..(img.w * img.h) |->
                            IF i \in S THEN Clear ELSE img.px[i]]] :
        S \in {{}, {1}}}

\* the state left by the Apply branch: source and working pixmap are
\* replaced, the label shows the result; mask and history are not touched
ApplyProcessed(processed) ==
    /\ _pixmap' = processed
    /\ _working_pixmap' = processed
    /\ display' = Shown("scaled", processed)
    /\ uncommitted' = TRUE
    /\ UNCHANGED _mask

\* variant: the processed image is applied before the outcome is known
remove_background_ApplyFirst(processed, apply) ==
    /\ ~buttons
    /\ _working_pixmap # NoImage
    /\ IF processed # NoImage
       THEN ApplyProcessed(processed)
       ELSE UNCHANGED <<_pixmap, _working_pixmap, _mask, display, uncommitted>>
    /\ Plain("remove_background",
             IF ProcessorCallRaises THEN "error"
             ELSE IF processed = NoImage THEN "failed"
             ELSE IF apply THEN "applied" ELSE "cancelled")
    /\ NoCommit
    /\ UNCHANGED <<_mode, _brush_size, brush_size, _current_mask, buttons>>

\* SpriteCraftEditor.remove_background; processed is what the processor
\* would return, apply the answer to the preview dialog.  The TypeError of
\* the call is caught by the handler's except clause (error dialog); a None
\* result gives the warning, Cancel the information dialog
remove_background(processed, apply) ==
    /\ ~buttons
    /\ _working_pixmap # NoImage
    /\ IF ~ProcessorCallRaises /\ processed # NoImage /\ apply
       THEN ApplyProcessed(processed)
       ELSE UNCHANGED <<_pixmap, _working_pixmap, _mask, display, uncommitted>>
    /\ Plain("remove_background",
             IF ProcessorCallRaises THEN "error"
             ELSE IF processed = NoImage THEN "failed"
             ELSE IF apply THEN "applied" ELSE "cancelled")
    /\ NoCommit
    /\ UNCHANGED <<_mode, _brush_size, brush_size, _current_mask, buttons>>

\* ---- the Tk editor (src/main_tk.py): segmentation ----
\* a numpy array of shape (h, w, c): px holds the c channel values of each pixel
Array(w, h, c, px) == [w |-> w, h |-> h, c |-> c, px |-> px]

\* the outcome of a cv2 call: an exception, or a value
Raised == [raised |-> TRUE]
Value(v) == [raised |-> FALSE, value |-> v]

\* cv2.cvtColor(np.array(original_image), cv2.COLOR_RGB2BGR): three channels
RGB2BGR(img) ==
    Array(img.w, img.h, 3,
          [i \in 1..(img.w * img.h) |-> <<img.px[i][3], img.px[i][2], img.px[i][1]>>])

\* cv2.cvtColor(a, cv2.COLOR_BGR2GRAY): 14-bit fixed-point weights
BGR2GRAY(a) ==
    IF a.c \notin {3, 4} THEN Raised
    ELSE Value(Array(a.w, a.h, 1,
                     [i \in 1..(a.w * a.h) |->
                         <<(a.px[i][1] * 1868 + a.px[i][2] * 9617
                            + a.px[i][3] * 4899 + 8192) \div 16384>>]))

\* the grey value at (x, y) with the border replicated
Replicated(a, x, y) ==
    a.px[Idx(a.w, Clamp(x, 0, a.w - 1), Clamp(y, 0, a.h - 1))][1]

\* cv2.medianBlur(gray, 5): the median of the 5 x 5 window around each pixel
MedianAt(a, i) ==
    LET W == (-2..2) \X (-2..2)
        v(d) == Replicated(a, XOf(a.w, i) + d[1], YOf(a.w, i) + d[2])
    IN  CHOOSE m \in {v(d) : d \in W} :
            /\ Cardinality({d \in W : v(d) < m}) <= 12
            /\ Cardinality({d \in W : v(d) <= m}) >= 13

medianBlur(a) == [a EXCEPT !.px = [i \in 1..(a.w * a.h) |-> <<MedianAt(a, i)>>]]

\* cv2.threshold(gray, 240, 255, cv2.THRESH_BINARY)
threshold(a) ==
    [a EXCEPT !.px = [i \in 1..(a.w * a.h) |->
                         <<IF a.px[i][1] > 240 THEN 255 ELSE 0>>]]

Adjacent8(w, i, j) ==
    /\ i # j
    /\ Abs(XOf(w, i) - XOf(w, j)) <= 1
    /\ Abs(YOf(w, i) - YOf(w, j)) <= 1

RECURSIVE Blob(_, _)
Blob(a, S) ==
    LET N == {j \in (1..(a.w * a.h)) \ S :
                 a.px[j][1] # 0 /\ \E i \in S : Adjacent8(a.w, i, j)}
    IN  IF N = {} THEN S ELSE Blob(a, S \cup N)

\* cv2.findContours(thresh, RETR_EXTERNAL, ...): one outer contour for each
\* 8-connected component of non-zero pixels, given here by its pixels
findContours(a) ==
    {Blob(a, {i}) : i \in {k \in 1..(a.w * a.h) : a.px[k][1] # 0}}

\* max(contours, key=cv2.contourArea); components are ranked here by their
\* number of pixels
largest_contour(contours) ==
    CHOOSE c \in contours : \A d \in contours : Cardinality(d) <= Cardinality(c)

\* mask = np.zeros_like(image_array), then cv2.drawContours(mask, [largest],
\* -1, (255), FILLED): the mask has the channels of the image, and the
\* scalar 255 sets the first of them
DrawnMask(image_array, contours) ==
    Array(image_array.w, image_array.h, image_array.c,
          [i \in 1..(image_array.w * image_array.h) |->
              [ch \in 1..image_array.c |->
                  IF contours # {} /\ ch = 1 /\ i \in largest_contour(contours)
                  THEN 255 ELSE 0]])

\* cv2.cvtColor(mask, cv2.COLOR_GRAY2BGR): the input must have one channel
GRAY2BGR(a) ==
    IF a.c # 1 THEN Raised
    ELSE Value(Array(a.w, a.h, 3,
                     [i \in 1..(a.w * a.h) |-> <<a.px[i][1], a.px[i][1], a.px[i][1]>>]))

\* cv2.bitwise_and(image_array, mask) for bytes that are 0 or 255 in the mask
bitwise_and(a, m) ==
    [a EXCEPT !.px = [i \in 1..(a.w * a.h) |->
                         [ch \in 1..a.c |-> IF m.px[i][ch] = 255 THEN a.px[i][ch] ELSE 0]]]

\* None, as returned from the except clause
None == [ok |-> FALSE]

\* main_tk.ImageProcessor.remove_background(image_array)
TkRemoveBackground(image_array) ==
    LET gray == BGR2GRAY(image_array)
    IN  IF gray.raised THEN None
        ELSE LET thresh == threshold(medianBlur(gray.value))
                 mask == GRAY2BGR(DrawnMask(image_array, findContours(thresh)))
             IN  IF mask.raised THEN None
                 ELSE [ok |-> TRUE, value |-> bitwise_and(image_array, mask.value)]

\* frame of the Tk editor's handlers: the Qt editor is a different program
TkFrame(name, r) ==
    /\ op' = name
    /\ ret' = r
    /\ UNCHANGED <<progVars, nCommits, snapAge, pruned, lastCommitPruned,
                   uncommitted, preUndo, gesture, preEdit, libVars>>

\* main_tk.SpriteCraftEditor.open_image: img is the resized image
tk_open_image(img) ==
    /\ original_image' = img
    /\ UNCHANGED result
    /\ TkFrame("tk_open_image", "none")

\* Image.fromarray(cv2.cvtColor(result, cv2.COLOR_BGRA2RGBA))
FromArray(a) ==
    Image(a.w, a.h,
          [i \in 1..(a.w * a.h) |-> <<a.px[i][3], a.px[i][2], a.px[i][1], 255>>])

\* main_tk.SpriteCraftEditor.remove_background
tk_remove_background ==
    /\ original_image # NoImage
    /\ result' = [called |-> TRUE, input |-> original_image,
                   returned |-> TkRemoveBackground(RGB2BGR(original_image))]
    /\ IF TkRemoveBackground(RGB2BGR(original_image)).ok
       THEN /\ original_image' = FromArray(TkRemoveBackground(RGB2BGR(original_image)).value)
            /\ TkFrame("tk_remove_background", "applied")
       ELSE /\ UNCHANGED original_image
            /\ TkFrame("tk_remove_background", "failed")

\* ---- inputs ----
ImgA == Image(2, 1, <<Cream, Dark>>)
ImgB == Image(1, 1, <<White>>)

\* images the file dialog may deliver
LoadImages == {ImgA, ImgB}
\* pointer positions: inside the image, at its edge, far away
Positions == {<<0, 0>>, <<1, 0>>, <<-18, 0>>, <<40, 40>>}

\* the session still has room for a snapshot (bound of the full model)
Budget == Len(_history) < MaxDepth

\* ---- the editor: the editing tools, sessions of bounded depth ----
Next ==
    \/ \E img \in LoadImages : open_image(img)
    \/ reset_image
    \/ enable_brush_tool
    \/ enable_auto_detect
    \/ enable_pencil_tool
    \/ enable_eraser_tool
    \/ enable_fill_tool
    \/ undo_action
    \/ redo_action
    \/ Budget /\ \E pos \in Positions : PressBrush(pos)
    \/ Budget /\ \E pos \in Positions : MoveBrush(pos)
    \/ \E pos \in Positions : PressPencil(pos)
    \/ \E pos \in Positions : MovePencil(pos)
    \/ \E pos \in Positions : PressEraser(pos)
    \/ \E pos \in Positions : MoveEraser(pos)
    \/ \E pos \in Positions : PressFill(pos)
    \/ PressOther
    \/ Release
    \/ \E pos \in Positions : MoveHover(pos)
    \/ Budget /\ \E pos \in Positions : \E yes \in BOOLEAN : MoveRemoveRegion(pos, yes)
    \/ Budget /\ UpdateWorkingPixmap

Spec == Init /\ [][Next]_vars

\* ---- the history alone: load, brush edits, undo, redo, reset; sessions
\* ---- of unbounded depth over one one-pixel image
HistImages == {ImgB}
HistPositions == {<<0, 0>>, <<40, 40>>}

HistNext ==
    \/ \E img \in HistImages : open_image(img)
    \/ reset_image
    \/ enable_brush_tool
    \/ undo_action
    \/ redo_action
    \/ \E pos \in HistPositions : PressBrush(pos)
    \/ \E pos \in HistPositions : MoveBrush(pos)
    \/ Release

HistorySpec == Init /\ [][HistNext]_vars

\* ---- snapshots: the history sessions with the pencil, which paints the
\* ---- working pixmap in place
SnapshotNext ==
    \/ HistNext
    \/ enable_pencil_tool
    \/ \E pos \in HistPositions : PressPencil(pos)
    \/ \E pos \in HistPositions : MovePencil(pos)

SnapshotSpec == Init /\ [][SnapshotNext]_vars

\* ---- brush strokes and the composite: a 4 x 2 image with one translucent
\* ---- pixel, two brush sizes, strokes between points around the image
Glass == <<40, 40, 40, 128>>
ImgS == Image(4, 2, <<Cream, Cream, Dark, Dark,
                      Cream, Glass, Dark, Dark>>)
StrokeImages == {ImgS}
\* values of the brush-size slider (its range is 5 .. 50)
BrushSizes == {5, 20}
StrokePoints == {<<0, 0>>, <<-4, 0>>, <<-4, 6>>, <<8, 1>>, <<2, -5>>, <<-21, 1>>}

StrokeNext ==
    \/ \E img \in StrokeImages : open_image(img)
    \/ \E size \in BrushSizes : update_brush_size(size)
    \/ enable_brush_tool
    \/ Budget /\ \E pos \in StrokePoints : PressBrush(pos)
    \/ Budget /\ \E pos \in StrokePoints : MoveBrush(pos)
    \/ Release
    \/ Budget /\ \E a \in StrokePoints : \E b \in StrokePoints : DrawLine(a, b)
    \/ Budget /\ UpdateWorkingPixmap

StrokeSpec == Init /\ [][StrokeNext]_vars

\* ---- region detection: a grey ramp, a uniform image and a two-colour image
Grey(v) == <<v, v, v, 255>>
ImgRamp == Image(4, 1, <<Grey(250), Grey(241), Grey(232), Grey(223)>>)
ImgUniform == Image(2, 2, <<Cream, Cream, Cream, Cream>>)
RegionImages == {ImgRamp, ImgUniform, ImgA}
RegionPositions == {<<0, 0>>, <<1, 0>>, <<3, 0>>, <<1, 1>>, <<-1, 0>>, <<40, 40>>}

RegionNext ==
    \/ \E img \in RegionImages : open_image(img)
    \/ enable_auto_detect
    \/ \E pos \in RegionPositions : MoveHover(pos)
    \/ PressOther
    \/ Budget /\ \E pos \in RegionPositions : \E yes \in BOOLEAN : MoveRemoveRegion(pos, yes)
    \/ Release

RegionSpec == Init /\ [][RegionNext]_vars

\* ---- cropping: a 2 x 2 image, brush edits, crops of the working pixmap
ImgC == Image(2, 2, <<Cream, Dark, Dark, Cream>>)
CropImages == {ImgC}
CropPositions == {<<0, 0>>, <<-19, 0>>, <<40, 40>>}

CropNext ==
    \/ \E img \in CropImages : open_image(img)
    \/ reset_image
    \/ \E processed \in ProcessedResults(_working_pixmap) : \E apply \in BOOLEAN :
          remove_background(processed, apply)
    \/ crop_image
    \/ enable_brush_tool
    \/ undo_action
    \/ redo_action
    \/ PressCrop
    \/ \E r \in CropRects(ImgC) : ReleaseCrop(r)
    \/ ReleaseCropEmpty
    \/ Budget /\ \E pos \in CropPositions : PressBrush(pos)
    \/ Budget /\ \E pos \in CropPositions : MoveBrush(pos)
    \/ Release

CropSpec == Init /\ [][CropNext]_vars

\* ---- the Tk editor: every 3 x 1 image over four grey levels
TkPixels == {White, Grey(241), Grey(240), Dark}
\* a white 8 x 4 image with a dark 6 x 4 block and one dark pixel apart from it
ImgSpeck ==
    Image(8, 4, [i \in 1..32 |->
                    IF XOf(8, i) <= 5 \/ i = Idx(8, 7, 0) THEN Dark ELSE White])
TkImages ==
    {Image(3, 1, <<p, q, r>>) : p \in TkPixels, q \in TkPixels, r \in TkPixels}
        \cup {ImgSpeck}

TkNext ==
    \/ \E img \in TkImages : tk_open_image(img)
    \/ tk_remove_background

SegmentSpec == Init /\ [][TkNext]_vars

\* ---- the sprite sheet generator (src/sprite_sheet.py) ----
\* An image is its size [w, h]; a frame entry keeps the number of its
\* filename "sprite_<i>" and its frame rectangle (the other fields of the
\* entry repeat w and h).

\* every other variable is left alone by a library call
LibFrame(name, r) ==
    /\ op' = name
    /\ ret' = r
    /\ UNCHANGED <<progVars, nCommits, snapAge, pruned, lastCommitPruned,
                   uncommitted, preUndo, gesture, preEdit, tkVars>>

DefaultPadding == 2

\* int(np.ceil(np.sqrt(n)))
CeilSqrt(n) == CHOOSE c \in 0..n : c * c >= n /\ (c = 0 \/ (c - 1) * (c - 1) < n)

\* int(np.ceil(a / b))
CeilDiv(a, b) == (a + b - 1) \div b

MaxOf(S) == CHOOSE m \in S : \A x \in S : x <= m

max_width(imgs) == MaxOf({imgs[i].w : i \in 1..Len(imgs)})

max_height(imgs) == MaxOf({imgs[i].h : i \in 1..Len(imgs)})

GridCols(imgs) == CeilSqrt(Len(imgs))

GridRows(imgs) == CeilDiv(Len(imgs), GridCols(imgs))

\* the sheet _generate_grid_sheet creates
GridSheet(imgs, padding) ==
    [w |-> GridCols(imgs) * (max_width(imgs) + padding) - padding,
     h |-> GridRows(imgs) * (max_height(imgs) + padding) - padding]

\* the frame entries _generate_grid_sheet appends, in order
GridFrames(imgs, padding) ==
    [k \in 1..Len(imgs) |->
        LET i == k - 1
            row == i \div GridCols(imgs)
            col == i % GridCols(imgs)
            x == col * (max_width(imgs) + padding)
            y == row * (max_height(imgs) + padding)
            x_offset == (max_width(imgs) - imgs[k].w) \div 2
            y_offset == (max_height(imgs) - imgs[k].h) \div 2
        IN  [filename |-> i, x |-> x + x_offset, y |-> y + y_offset,
             w |-> imgs[k].w, h |-> imgs[k].h]]

\* sorted(enumerate(images), key=height, reverse=True): the stable sort
\* keeps the original order among images of equal height
images_with_index(imgs) ==
    [k \in 1..Len(imgs) |->
        CHOOSE i \in 1..Len(imgs) :
            Cardinality({j \in 1..Len(imgs) :
                \/ imgs[j].h > imgs[i].h
                \/ imgs[j].h = imgs[i].h /\ j < i}) = k - 1]

\* the packing loop before any image is placed
PackStart(imgs, padding) ==
    [sheet_width |-> 0, sheet_height |-> 0, current_x |-> padding,
     current_y |-> padding, row_max_height |-> 0,
     frames |-> [k \in 1..Len(imgs) |-> NoFile]]

\* one iteration of the packing loop: image number i is placed
PackStep(imgs, padding, st, i) ==
    LET wrap == st.current_x + imgs[i].w + padding > st.sheet_width
                /\ st.sheet_width > 0
        x == IF wrap THEN padding ELSE st.current_x
        y == IF wrap THEN st.current_y + st.row_max_height + padding
                     ELSE st.current_y
        rmh == IF wrap THEN 0 ELSE st.row_max_height
    IN  [sheet_width |-> Max(st.sheet_width, x + imgs[i].w + padding),
         sheet_height |-> Max(st.sheet_height, y + imgs[i].h + padding),
         current_x |-> x + imgs[i].w + padding,
         current_y |-> y,
         row_max_height |-> Max(rmh, imgs[i].h),
         frames |-> [st.frames EXCEPT ![i] =
                        [filename |-> i - 1, x |-> x, y |-> y,
                         w |-> imgs[i].w, h |-> imgs[i].h]]]

RECURSIVE Pack(_, _, _)
\* the packing loop over the first k images of the sorted order
Pack(imgs, padding, k) ==
    IF k = 0 THEN PackStart(imgs, padding)
    ELSE PackStep(imgs, padding, Pack(imgs, padding, k - 1),
                  images_with_index(imgs)[k])

PackedFrames(imgs, padding) == Pack(imgs, padding, Len(imgs)).frames

PackedSheet(imgs, padding) ==
    [w |-> Max(0, Pack(imgs, padding, Len(imgs)).sheet_width - padding),
     h |-> Max(0, Pack(imgs, padding, Len(imgs)).sheet_height - padding)]

\* SpriteSheetGenerator.add_image
add_image(image) ==
    /\ images' = Append(images, image)
    /\ call' = [name |-> "add_image"]
    /\ UNCHANGED <<metadata, saved, palette, pluginVars>>
    /\ LibFrame("add_image", "none")

\* SpriteSheetGenerator.clear_images
clear_images ==
    /\ images' = <<>>
    /\ metadata' = <<>>
    /\ call' = [name |-> "clear_images"]
    /\ UNCHANGED <<saved, palette, pluginVars>>
    /\ LibFrame("clear_images", "none")

\* metadata["frames"] after the frames of a generation are recorded: the
\* grid layout appends to the list, the packed layout replaces it
FramesAfter(frames, imgs, padding, method) ==
    IF method = "grid" THEN frames \o GridFrames(imgs, padding)
    ELSE PackedFrames(imgs, padding)

\* the sheet generate_sheet returns
Sheet(imgs, padding, method) ==
    IF method = "grid" THEN GridSheet(imgs, padding)
    ELSE PackedSheet(imgs, padding)

\* SpriteSheetGenerator.generate_sheet
generate_sheet(padding, method) ==
    /\ IF images = <<>> \/ method \notin {"grid", "packed"}
       THEN /\ call' = [name |-> "generate_sheet", padding |-> padding,
                        method |-> method, raised |-> TRUE]
            /\ UNCHANGED metadata
            /\ LibFrame("generate_sheet", "ValueError")
       ELSE /\ metadata' = FramesAfter(metadata, images, padding, method)
            /\ call' = [name |-> "generate_sheet", padding |-> padding,
                        method |-> method, raised |-> FALSE,
                        sheet |-> Sheet(images, padding, method)]
            /\ LibFrame("generate_sheet", "none")
    /\ UNCHANGED <<images, saved, palette, pluginVars>>

\* SpriteSheetGenerator.save_sheet: generate_sheet() with its defaults,
\* then the sheet and the metadata are written
save_sheet ==
    /\ IF images = <<>>
       THEN /\ call' = [name |-> "save_sheet", raised |-> TRUE]
            /\ UNCHANGED <<metadata, saved>>
            /\ LibFrame("save_sheet", "ValueError")
       ELSE /\ metadata' = FramesAfter(metadata, images, DefaultPadding, "grid")
            /\ saved' = [written |-> TRUE,
                         sheet |-> Sheet(images, DefaultPadding, "grid"),
                         frames |-> metadata']
            /\ call' = [name |-> "save_sheet", padding |-> DefaultPadding,
                        method |-> "grid", raised |-> FALSE,
                        sheet |-> Sheet(images, DefaultPadding, "grid")]
            /\ LibFrame("save_sheet", "none")
    /\ UNCHANGED <<images, palette, pluginVars>>

\* SpriteSheetGenerator.load_sheet on the files save_sheet wrote: one
\* sprite is cropped per frame entry; open() raises when there is no file
load_sheet ==
    /\ IF saved = NoFile
       THEN /\ call' = [name |-> "load_sheet", raised |-> TRUE]
            /\ UNCHANGED <<images, metadata>>
            /\ LibFrame("load_sheet", "FileNotFoundError")
       ELSE /\ metadata' = saved.frames
            /\ images' = [k \in 1..Len(saved.frames) |->
                             [w |-> saved.frames[k].w, h |-> saved.frames[k].h]]
            /\ call' = [name |-> "load_sheet", raised |-> FALSE]
            /\ LibFrame("load_sheet", "none")
    /\ UNCHANGED <<saved, palette, pluginVars>>

\* ---- sprite sheet sessions ----
MaxImages == 3

MaxFrames == 5

Sizes == {[w |-> 32, h |-> 32], [w |-> 16, h |-> 48]}

Paddings == {0, 2}

Methods == {"grid", "packed", "rows"}

SheetNext ==
    \/ \E image \in Sizes : Len(images) < MaxImages /\ add_image(image)
    \/ clear_images
    \/ \E padding \in Paddings : \E method \in Methods :
          /\ Len(metadata) + Len(images) <= MaxFrames
          /\ generate_sheet(padding, method)
    \/ Len(metadata) + Len(images) <= MaxFrames /\ save_sheet
    \/ load_sheet

SheetSpec == Init /\ [][SheetNext]_vars

\* ---- the palette editor (src/palette_editor.py) ----
\* PaletteEditor.max_colors
max_colors == 256

\* list.pop(index) for a valid index, counted from 0
Pop(seq, index) ==
    [k \in 1..(Len(seq) - 1) |-> IF k <= index THEN seq[k] ELSE seq[k + 1]]

\* the colours of a palette
ColorsOf(pal) == {pal[k] : k \in 1..Len(pal)}

\* variant: the colour is appended without looking for it in the palette
add_color_Unchecked(r, g, b) ==
    /\ IF Len(palette) >= max_colors
       THEN /\ UNCHANGED palette
            /\ LibFrame("add_color", "False")
       ELSE /\ palette' = Append(palette, <<r, g, b>>)
            /\ LibFrame("add_color", "True")
    /\ call' = [name |-> "add_color", color |-> <<r, g, b>>]
    /\ UNCHANGED <<sheetVars, pluginVars>>

\* PaletteEditor.add_color
add_color(r, g, b) ==
    /\ IF Len(palette) >= max_colors
       THEN /\ UNCHANGED palette
            /\ LibFrame("add_color", "False")
       ELSE /\ palette' = IF <<r, g, b>> \notin ColorsOf(palette)
                          THEN Append(palette, <<r, g, b>>)
                          ELSE palette
            /\ LibFrame("add_color", "True")
    /\ call' = [name |-> "add_color", color |-> <<r, g, b>>]
    /\ UNCHANGED <<sheetVars, pluginVars>>

\* PaletteEditor.remove_color
remove_color(index) ==
    /\ IF 0 <= index /\ index < Len(palette)
       THEN /\ palette' = Pop(palette, index)
            /\ LibFrame("remove_color", "True")
       ELSE /\ UNCHANGED palette
            /\ LibFrame("remove_color", "False")
    /\ call' = [name |-> "remove_color", index |-> index]
    /\ UNCHANGED <<sheetVars, pluginVars>>

\* ---- palette sessions ----
\* Sessions start from the empty palette or from the palette left by
\* add_color(0, 0, 0), add_color(1, 0, 0), ..., add_color(253, 0, 0), and
\* follow palettes that are short or within NearFull entries of max_colors.
NearFull == 3

Preloaded == [k \in 1..(max_colors - 2) |-> <<k - 1, 0, 0>>]

Colors == {<<255, 0, 0>>, <<0, 255, 0>>, <<0, 0, 255>>, <<0, 0, 0>>}

Indexes(pal) == {-1, 0, 1, Len(pal) - 1, Len(pal)}

PaletteInit ==
    /\ EditorInit
    /\ LibInit
    /\ palette \in {<<>>, Preloaded}

PaletteNext ==
    \/ \E c \in Colors : add_color(c[1], c[2], c[3])
    \/ \E index \in Indexes(palette) :
          /\ \/ Len(palette) <= Cardinality(Colors)
             \/ Len(palette) > max_colors - NearFull
          /\ remove_color(index)

PaletteSpec == PaletteInit /\ [][PaletteNext]_vars

\* ---- the plugin manager (src/plugin_manager.py) ----
\* A file of the plugin directory is a record: its name without extension
\* (stem), its extension, whether the name starts with "_", whether
\* executing it raises, and its attribute apply: missing, a value that is
\* not callable, or the function x -> x * factor.
NoAttr == [defined |-> FALSE]

NotCallable == [defined |-> TRUE, callable |-> FALSE]

Times(factor) == [defined |-> TRUE, callable |-> TRUE, factor |-> factor]

File(stem, ext, underscore, raises, apply) ==
    [stem |-> stem, ext |-> ext, underscore |-> underscore,
     raises |-> raises, apply |-> apply]

\* the plugin the test writes: def apply(x): return x * 2
test_plugin == File("test_plugin", ".py", FALSE, FALSE, Times(2))

\* other files a plugin directory can hold
PluginFiles ==
    {test_plugin,
     File("helpers", ".py", FALSE, FALSE, NoAttr),
     File("_private", ".py", TRUE, FALSE, Times(3)),
     File("notes", ".txt", FALSE, FALSE, NoAttr),
     File("broken", ".py", FALSE, TRUE, Times(3)),
     File("constant", ".py", FALSE, FALSE, NotCallable)}

\* hasattr(module, "apply")
HasApply(module) == module.apply.defined

\* the files _load_plugin registers: exec_module returns and the module
\* has an attribute apply; every other file raises, which load_plugins
\* catches and prints
Registered(dir) ==
    {f \in dir : f.ext = ".py" /\ ~f.underscore /\ ~f.raises /\ HasApply(f)}

\* tests.py writes a plugin file into the directory
write_plugin_file(f) ==
    /\ plugin_dir' = {g \in plugin_dir : g.stem # f.stem \/ g.ext # f.ext} \cup {f}
    /\ call' = [name |-> "write_plugin_file"]
    /\ UNCHANGED <<sheetVars, palette, plugins>>
    /\ LibFrame("write_plugin_file", "none")

\* tests.py removes a plugin file
remove_plugin_file(f) ==
    /\ f \in plugin_dir
    /\ plugin_dir' = plugin_dir \ {f}
    /\ call' = [name |-> "remove_plugin_file"]
    /\ UNCHANGED <<sheetVars, palette, plugins>>
    /\ LibFrame("remove_plugin_file", "none")

\* PluginManager.load_plugins with _load_plugin: self.plugins[name] = module
load_plugins ==
    /\ plugins' = [name \in DOMAIN plugins \cup {f.stem : f \in Registered(plugin_dir)} |->
                      IF \E f \in Registered(plugin_dir) : f.stem = name
                      THEN CHOOSE f \in Registered(plugin_dir) : f.stem = name
                      ELSE plugins[name]]
    /\ call' = [name |-> "load_plugins"]
    /\ UNCHANGED <<sheetVars, palette, plugin_dir>>
    /\ LibFrame("load_plugins", "none")

\* PluginManager.apply_plugin(name, x): get_plugin is dict.get; calling an
\* attribute that is not callable raises TypeError
apply_plugin(name, x) ==
    /\ IF name \notin DOMAIN plugins
       THEN /\ call' = [name |-> "apply_plugin", plugin |-> name, args |-> x]
            /\ LibFrame("apply_plugin", "ValueError")
       ELSE IF ~plugins[name].apply.callable
       THEN /\ call' = [name |-> "apply_plugin", plugin |-> name, args |-> x]
            /\ LibFrame("apply_plugin", "TypeError")
       ELSE /\ call' = [name |-> "apply_plugin", plugin |-> name, args |-> x,
                        value |-> x * plugins[name].apply.factor]
            /\ LibFrame("apply_plugin", "none")
    /\ UNCHANGED <<sheetVars, palette, pluginVars>>

\* ---- plugin sessions ----
PluginNames == {"test_plugin", "constant", "helpers", "unknown"}

PluginArgs == {0, 5}

PluginNext ==
    \/ \E f \in PluginFiles : write_plugin_file(f)
    \/ \E f \in PluginFiles : remove_plugin_file(f)
    \/ load_plugins
    \/ \E name \in PluginNames : \E x \in PluginArgs : apply_plugin(name, x)

PluginSpec == Init /\ [][PluginNext]_vars

\* ======================= claims =======================

\* C1: the history never holds more than MaxHistory (20) snapshots,
\* whatever sequence of load, brush edit, undo, redo and reset ran.
C1_HistoryBounded == Len(_history) <= MaxHistory

\* a full history from which the oldest snapshot has been evicted
C1_Witness ==
    /\ Len(_history) = MaxHistory
    /\ nCommits > MaxHistory

\* C2: whenever the history is non-empty the cursor lies in
\* 0 .. length - 1 (and is -1 when it is empty), also right after the
\* eviction of the oldest snapshot.
C2_CursorInRange ==
    IF Len(_history) = 0
    THEN _history_index = -1
    ELSE 0 <= _history_index /\ _history_index < Len(_history)

\* the cursor after an eviction at the bound
C2_Witness ==
    /\ Len(_history) = MaxHistory
    /\ nCommits > MaxHistory
    /\ _history_index = MaxHistory - 1
    /\ op = "move_brush"

\* C3: a commit made while the cursor is not at the last snapshot keeps
\* exactly the snapshots up to the cursor and appends the new one, and a
\* redo issued right after it reports False and changes nothing.
C3_RedoBranchPruned ==
    [][ /\ lastCommitPruned' /\ op' # "redo" =>
            /\ _history' = Append(SubSeq(_history, 1, _history_index + 1),
                                  _working_pixmap')
            /\ _history_index' = Len(_history') - 1
        /\ lastCommitPruned /\ op' = "redo" =>
            /\ ret' = "False"
            /\ UNCHANGED progVars ]_vars

\* a redo refused right after a commit that dropped a redo branch
C3_Witness ==
    /\ op = "redo"
    /\ lastCommitPruned
    /\ ret = "False"
    /\ Len(_history) > 1

\* C4: after a run of commits (no uncommitted edit on the working pixmap),
\* a successful undo followed at once by redo succeeds and brings back the
\* cursor, the working pixmap and the mask of before the undo, with the
\* snapshot sequence as it was.
C4_UndoRedoInverse ==
    (op = "redo" /\ preUndo.set /\ preUndo.clean) =>
        /\ ret = "True"
        /\ _history_index = preUndo.index
        /\ _working_pixmap = preUndo.working
        /\ _mask = preUndo.mask
        /\ _history = preUndo.history

\* an undo / redo pair over two snapshots of different content
C4_Witness ==
    /\ op = "redo"
    /\ preUndo.set
    /\ preUndo.clean
    /\ _history_index > 0
    /\ At(_history, _history_index) # At(_history, _history_index - 1)

\* C5: undo at the oldest retained snapshot or on an empty history, and
\* redo at the newest snapshot or on an empty history, report False and
\* leave snapshots, cursor, mask, source, working pixmap and display as
\* they were.
C5_ExhaustedIsNoOp ==
    [][ /\ (op' = "undo" /\ _history_index <= 0) =>
            (ret' = "False" /\ UNCHANGED progVars)
        /\ (op' = "redo" /\ _history_index >= Len(_history) - 1) =>
            (ret' = "False" /\ UNCHANGED progVars) ]_vars

\* an undo refused at the oldest snapshot of a history that evicted entries
C5_Witness ==
    /\ op = "undo"
    /\ ret = "False"
    /\ _history_index = 0
    /\ Len(_history) = MaxHistory
    /\ nCommits > MaxHistory

\* C6: once a session has made MaxHistory + EarlySnaps commits in a row,
\* none of its EarlySnaps oldest snapshots is retained, so no undo can
\* return one of them.
C6_OldestUnrecoverable ==
    nCommits >= MaxHistory + EarlySnaps =>
        /\ Len(snapAge) = Len(_history)
        /\ \A k \in 1..Len(snapAge) : snapAge[k] >= EarlySnaps

\* undo walked back to the oldest retained snapshot and was refused there
C6_Witness ==
    /\ nCommits >= MaxHistory + EarlySnaps
    /\ op = "undo"
    /\ ret = "False"
    /\ _history_index = 0

\* C7: a brush gesture (press, moves, release) adds exactly one snapshot
\* to the history.
C7_OneEntryPerGesture ==
    (op = "release" /\ preEdit.set /\ preEdit.mode = MODE_BRUSH) => gesture = 1

\* C8: after any completed edit gesture the history holds, right before
\* the cursor, the state from before the edit, so undo succeeds and
\* returns it.
C8_EveryEditCommits ==
    (op = "release" /\ preEdit.set) =>
        /\ _history_index > 0
        /\ At(_history, _history_index - 1) = preEdit.working

\* C9: a second composite with no mutation in between yields the same
\* working pixmap as the first.
C9_CompositeIdempotent ==
    [][ op' = "composite_again" => _working_pixmap' = _working_pixmap ]_vars

\* two composites in a row over a mask with a partly transparent pixel
C9_Witness ==
    /\ op = "composite_again"
    /\ \E i \in 1..Len(_mask.a) : _mask.a[i] # 0 /\ _mask.a[i] # 255

\* C10: computing the composite leaves mask, source image, snapshot
\* sequence and cursor unchanged.
C10_CompositeIsPureRead ==
    [][ op' \in {"composite", "composite_again"} =>
            UNCHANGED <<_mask, _pixmap, _history, _history_index>> ]_vars

\* C11: in the output of the composite every pixel has the colour channels
\* of the source image at that pixel and an alpha equal to the mask value
\* at that pixel.
C11_CompositeRule ==
    (op \in {"composite", "composite_again"}) =>
        \A i \in 1..(_pixmap.w * _pixmap.h) :
            /\ _working_pixmap.px[i][1] = _pixmap.px[i][1]
            /\ _working_pixmap.px[i][2] = _pixmap.px[i][2]
            /\ _working_pixmap.px[i][3] = _pixmap.px[i][3]
            /\ _working_pixmap.px[i][4] = _mask.a[i]

\* twice the centre of pixel i of a raster of width w
Centre2(w, i) == <<2 * XOf(w, i) + 1, 2 * YOf(w, i) + 1>>

Twice(p) == <<2 * p[1], 2 * p[2]>>

\* what a stroke of radius r along a-b does to the mask: a pixel whose centre
\* is within r - 1 of the segment becomes 0, a pixel whose centre is
\* farther than r + 1 from it keeps its value, no value grows, and the
\* source image is as before
StrokeEffect(a, b, r) ==
    /\ _pixmap' = _pixmap
    /\ _mask'.w = _mask.w /\ _mask'.h = _mask.h
    /\ \A i \in 1..(_mask.w * _mask.h) :
          /\ NearSegment(Centre2(_mask.w, i), Twice(a), Twice(b), 2 * r - 2, FALSE)
                => _mask'.a[i] = 0
          /\ ~NearSegment(Centre2(_mask.w, i), Twice(a), Twice(b), 2 * r + 2, FALSE)
                => _mask'.a[i] = _mask.a[i]
          /\ _mask'.a[i] <= _mask.a[i]

C13_RegionRemoved ==
    (/\ op = "remove_region" /\ ret = "removed"
     /\ preEdit.region.w = _mask.w /\ preEdit.region.h = _mask.h) =>
        \A i \in 1..(_mask.w * _mask.h) :
            IF preEdit.region.a[i] # 0
            THEN _mask.a[i] = 0
            ELSE _mask.a[i] = preEdit.mask.a[i]

\* C14: right after an image is loaded every mask pixel is 255 and the
\* history holds exactly one snapshot, the loaded image, with the cursor at
\* 0, whatever the history held before.
C14_LoadStartsSession ==
    op = "open_image" =>
        /\ _mask = FilledMask(_pixmap.w, _pixmap.h, 255)
        /\ Len(_history) = 1
        /\ _history_index = 0
        /\ At(_history, 0) = _pixmap

\* a load that replaced a history of several snapshots
C14_Witness ==
    /\ op = "open_image"
    /\ ret = "replaced"
    /\ _pixmap.w * _pixmap.h > 1

\* C15: after a reset the mask is all 255 with the size of the source, the
\* history holds the source alone (neither undo nor redo can leave it) and
\* the label shows the unedited source.
C15_ResetStartsOver ==
    op = "reset_image" =>
        /\ _mask = FilledMask(_pixmap.w, _pixmap.h, 255)
        /\ _history = <<_pixmap>>
        /\ _history_index = 0
        /\ ~CanUndo(_history_index)
        /\ ~CanRedo(_history, _history_index)
        /\ _working_pixmap = _pixmap
        /\ display.img = _pixmap

\* a reset that discarded a history of several snapshots
C15_Witness ==
    /\ op = "reset_image"
    /\ ret = "replaced"
    /\ _mode = MODE_NONE
    /\ _pixmap.w * _pixmap.h > 1

\* the pixels reachable from S by 4-connected steps through pixels whose
\* every colour channel is within tol of the colour c
RECURSIVE GrowNear(_, _, _, _)
GrowNear(img, S, c, tol) ==
    LET N == {j \in (1..(img.w * img.h)) \ S :
                 /\ \E i \in S : Adjacent4(img.w, i, j)
                 /\ Similar(c, img.px[j], tol)}
    IN  IF N = {} THEN S ELSE GrowNear(img, S \cup N, c, tol)

\* the region of the seed when every pixel is compared with the seed's colour
SeedRegion(img, seed, tol) ==
    GrowNear(img, {Idx(img.w, seed[1], seed[2])},
             img.px[Idx(img.w, seed[1], seed[2])], tol)

\* C16: the region detected from a seed is exactly the set of pixels
\* reachable from the seed by 4-connected steps through pixels whose every
\* channel is within the tolerance of the seed pixel's colour.
C16_RegionIsSeedRelative ==
    [][ (op' = "hover" /\ ret' = "detected") =>
            \A pos \in RegionPositions :
                MoveHover(pos) =>
                    \A i \in 1..(_pixmap.w * _pixmap.h) :
                        (_current_mask'.a[i] # 0)
                            <=> (i \in SeedRegion(_pixmap, pos, Tolerance))
      ]_vars

\* every pixel of the image has the same colour
Uniform(img) == \A i, j \in 1..(img.w * img.h) : img.px[i] = img.px[j]

\* C17: on a uniform-coloured image the region of any seed inside the image,
\* detected with tolerance 0, covers all W * H pixels; so does the region
\* the hover handler detects.
C17_UniformImageOneRegion ==
    (_pixmap # NoImage /\ Uniform(_pixmap)) =>
        /\ \A x \in 0..(_pixmap.w - 1) : \A y \in 0..(_pixmap.h - 1) :
              FloodFill(_pixmap, <<x, y>>, 0) = 1..(_pixmap.w * _pixmap.h)
        /\ (op = "hover" /\ ret = "detected") =>
              _current_mask = [w |-> _pixmap.w, h |-> _pixmap.h,
                               a |-> [i \in 1..(_pixmap.w * _pixmap.h) |-> 1]]

\* a region detected on a uniform image of more than one row and column
C17_Witness ==
    /\ op = "hover"
    /\ ret = "detected"
    /\ Uniform(_pixmap)
    /\ _pixmap.w > 1
    /\ _pixmap.h > 1

\* C18: a hover whose seed lies outside the image leaves no region selected:
\* there is no region, or an empty one, for a following removal to consume.
C18_OutsideSeedSelectsNothing ==
    (op = "hover" /\ ret = "outside") =>
        \/ _current_mask = NoMask
        \/ \A i \in 1..Len(_current_mask.a) : _current_mask.a[i] = 0

\* the mask has the width and height of the source image
MaskFits == _mask.w = _pixmap.w /\ _mask.h = _pixmap.h

\* C19: in every reachable state the mask has exactly the width and height
\* of the source image, and a step that changes the size of the source
\* leaves a freshly allocated (all 255) mask of the new size.
C19_MaskMatchesSource ==
    [][ /\ MaskFits
        /\ MaskFits'
        /\ (_pixmap'.w # _pixmap.w \/ _pixmap'.h # _pixmap.h) =>
              _mask' = FilledMask(_pixmap'.w, _pixmap'.h, 255)
      ]_vars

\* a crop of an edited image to a smaller size
C19_Witness ==
    /\ op = "crop"
    /\ ret = "none"
    /\ _pixmap.w * _pixmap.h = 2
    /\ \E i \in 1..2 : _pixmap.px[i][4] # 255

\* every pixel of the image is white
AllWhite(img) == \A i \in 1..(img.w * img.h) : img.px[i] = White

\* C20: segmentation of an image whose every pixel is white returns a
\* successful result with no foreground (every byte 0), not a failure.
C20_WhiteImageEmptyMask ==
    (result.called /\ AllWhite(result.input)) =>
        /\ result.returned.ok
        /\ \A i \in 1..(result.input.w * result.input.h) :
              \A ch \in 1..3 : result.returned.value.px[i][ch] = 0

\* the pixels of an image that are not near-white
Foreground(img) ==
    {i \in 1..(img.w * img.h) : \E ch \in 1..3 : img.px[i][ch] < 220}

RECURSIVE Component(_, _, _)
Component(img, F, S) ==
    LET N == {j \in F \ S : \E i \in S : Adjacent8(img.w, i, j)}
    IN  IF N = {} THEN S ELSE Component(img, F, S \cup N)

\* the 8-connected components of the foreground
Components(img) == {Component(img, Foreground(img), {i}) : i \in Foreground(img)}

\* C21: segmentation succeeds and keeps every foreground component whose
\* area is at least 5% of the largest component's area (its pixels keep
\* their colour in the result) and removes every smaller one (its pixels
\* are 0 in the result).
C21_SignificantComponentsKept ==
    result.called =>
        /\ result.returned.ok
        /\ \A c \in Components(result.input) :
              LET big == \A d \in Components(result.input) :
                             20 * Cardinality(c) >= Cardinality(d)
              IN  \A i \in c :
                      result.returned.value.px[i] =
                          IF big THEN RGB2BGR(result.input).px[i] ELSE <<0, 0, 0>>

\* C22: a background removal that fails, or whose preview is cancelled,
\* is reported as such (never as an applied result) and leaves source
\* image, mask, working pixmap, history and cursor exactly as they were.
C22_FailedRemovalChangesNothing ==
    [][ op' = "remove_background" =>
            /\ ProcessorCallRaises => ret' = "error"
            /\ ret' # "applied" =>
                  UNCHANGED <<_pixmap, _mask, _working_pixmap, _history,
                              _history_index, display>>
      ]_vars

\* a failed background removal on an edited image
C22_Witness ==
    /\ op = "remove_background"
    /\ ret = "error"
    /\ Len(_history) > 1
    /\ \E i \in 1..Len(_mask.a) : _mask.a[i] # 255

\* the operations that edit the image: paint, fill and region removal
EditOps ==
    {"press_brush", "move_brush", "press_pencil", "move_pencil",
     "press_eraser", "move_eraser", "press_fill", "remove_region"}

\* C23: an edit call that fails is contained and atomic: no exception
\* leaves the editor, and after a call that did not edit (raised, skipped or
\* declined) the mask and the history are exactly as before the call.
C23_FailedEditContained ==
    [][ op' \in EditOps =>
            /\ ret' # "raise"
            /\ ret' \in {"raise", "skipped", "declined"} =>
                  UNCHANGED <<_mask, _history, _history_index>>
      ]_vars

\* C24: once generate_sheet (directly or through save_sheet) has returned,
\* the metadata holds exactly one frame entry per image currently added.
C24_OneFramePerImage ==
    (op \in {"generate_sheet", "save_sheet"} /\ ret = "none") =>
        Len(metadata) = Len(images)

\* the rectangle of a frame entry lies inside a sheet
FrameInside(f, sh) ==
    /\ f.x >= 0
    /\ f.y >= 0
    /\ f.x + f.w <= sh.w
    /\ f.y + f.h <= sh.h

\* C25: for n >= 1 images and padding p the grid sheet is
\* cols*(maxW+p)-p wide and rows*(maxH+p)-p high, with cols = ceil(sqrt(n))
\* and rows = ceil(n/cols), and every frame rectangle recorded in the
\* metadata lies inside the sheet.
C25_GridSheetDimensions ==
    (op = "generate_sheet" /\ ret = "none" /\ call.method = "grid") =>
        LET n == Len(images)
            p == call.padding
            cols == CHOOSE c \in 1..n : c * c >= n /\ (c - 1) * (c - 1) < n
            rows == CHOOSE r \in 1..n : r * cols >= n /\ (r - 1) * cols < n
        IN  /\ call.sheet.w = cols * (max_width(images) + p) - p
            /\ call.sheet.h = rows * (max_height(images) + p) - p
            /\ \A k \in 1..Len(metadata) : FrameInside(metadata[k], call.sheet)

\* a palette without duplicates and within the capacity
PaletteOK(pal) ==
    /\ Len(pal) <= max_colors
    /\ Cardinality(ColorsOf(pal)) = Len(pal)

\* what the claim says of remove_color
RemoveRule ==
    op' = "remove_color" =>
        IF 0 <= call'.index /\ call'.index < Len(palette)
        THEN Len(palette') = Len(palette) - 1
        ELSE ret' = "False" /\ palette' = palette

\* C26 as stated: the palette never holds a duplicate nor more than
\* max_colors entries; adding an absent colour grows it by exactly one;
\* remove_color shrinks it by one for a valid index, and returns False and
\* changes nothing for an invalid one.
C26_PaletteRules ==
    [][ /\ PaletteOK(palette) => PaletteOK(palette')
        /\ (op' = "add_color" /\ call'.color \notin ColorsOf(palette)) =>
               Len(palette') = Len(palette) + 1
        /\ RemoveRule
      ]_vars

\* C26, amended: as stated, except that an absent colour grows the palette
\* by exactly one only while it holds fewer than max_colors entries; at
\* max_colors entries add_color returns False and changes nothing.
C26_PaletteRulesBelowCapacity ==
    [][ /\ PaletteOK(palette) => PaletteOK(palette')
        /\ (op' = "add_color" /\ call'.color \notin ColorsOf(palette)) =>
               IF Len(palette) < max_colors
               THEN Len(palette') = Len(palette) + 1 /\ ret' = "True"
               ELSE palette' = palette /\ ret' = "False"
        /\ RemoveRule
      ]_vars

\* an absent colour was refused by a full palette
C26_Witness ==
    /\ op = "add_color"
    /\ ret = "False"
    /\ Len(palette) = max_colors
    /\ call.color \notin ColorsOf(palette)

\* C27: apply_plugin returns what the registered plugin's apply returns;
\* for a name that is not registered it raises ValueError and leaves the
\* registry unchanged; only modules that expose an apply function are ever
\* registered.
C27_PluginContract ==
    [][ /\ \A name \in DOMAIN plugins' :
              /\ plugins'[name].apply.defined
              /\ plugins'[name].apply.callable
        /\ op' = "apply_plugin" =>
              IF call'.plugin \in DOMAIN plugins
              THEN /\ ret' = "none"
                   /\ \E f \in PluginFiles :
                         /\ f.stem = call'.plugin
                         /\ f = plugins[call'.plugin]
                         /\ call'.value = call'.args * f.apply.factor
              ELSE ret' = "ValueError" /\ plugins' = plugins
      ]_vars

C30_DetectionSideEffectFree ==
    [][ /\ op' = "hover" =>
              UNCHANGED <<_pixmap, _mask, _history, _history_index>>
        /\ (op' = "remove_region" /\ ret' = "declined") =>
              /\ _current_mask' = NoMask
              /\ UNCHANGED <<_pixmap, _mask, _history, _history_index>>
      ]_vars

\* a region detected on an edited image was declined and discarded
C30_Witness ==
    /\ op = "remove_region"
    /\ ret = "declined"
    /\ preEdit.region # NoMask
    /\ Len(_history) > 1
    /\ \E i \in 1..Len(_mask.a) : _mask.a[i] # 255

====
